---- MODULE Spec2Model ----
(***************************************************************************)
(* Model of the task store of the todo application:                        *)
(*   - app/utils/taskUtils.ts    (parseTaskInput, createTask, getTaskStats,*)
(*                                filterTasks)                             *)
(*   - app/lib/firebaseService.ts (addTask, updateTask, deleteTask,        *)
(*                                subscribeToUserTasks, getUserSettings,   *)
(*                                updateUserSettings)                      *)
(*   - app/contexts/TaskContext.tsx (TaskProvider: effects, commands,      *)
(*                                getFilteredTasks, taskReducer)           *)
(*   - app/components/AddTaskModal.tsx, EditTaskModal.tsx (handleSubmit)   *)
(*                                                                         *)
(* Time is a tick counter; a day has DayLen ticks.  A Date is the tick it  *)
(* denotes.  JavaScript's undefined and Firestore's null are kept apart:   *)
(* for string fields they are the strings Undefined and Null, for dates    *)
(* the negative numbers UndefDate and NullDate.                            *)
(* A text is a sequence of tokens (whole lower-case words, date phrases,   *)
(* ISO dates, #tags, repeat:<value> tokens); white space is not modelled.  *)
(***************************************************************************)
EXTENDS Integers, Sequences, FiniteSets, TLC

\* ------------------------------------------------------------------ bounds
MaxTime == 2        \* the clock stops ticking here
DayLen == 2         \* ticks per day
MaxIds == 2         \* document ids the store can hand out
MaxPending == 2     \* port calls in flight at once
MaxCalls == 2       \* port calls made in a run
MaxSubs == 2        \* subscriptions ever acquired

\* --------------------------------------------------------------- constants
NoUser == "nobody"
Users == {"A", "B"}
Undefined == "undefined"
Null == "null"
UndefDate == -1
NullDate == -2
Ids == 1..MaxIds

Day(t) == t \div DayLen
Noon == DayLen \div 2
IsDate(d) == d >= 0

Range(s) == {s[i] : i \in DOMAIN s}

\* ------------------------------------------------------------------ tokens
Word(v) == [k |-> "word", v |-> v, d |-> 0]
Phrase(v) == [k |-> "phrase", v |-> v, d |-> 0]
IsoDate(day) == [k |-> "iso", v |-> "yyyy-MM-dd", d |-> day]
Tag(v) == [k |-> "tag", v |-> v, d |-> 0]
RepeatTok(v) == [k |-> "repeat", v |-> v, d |-> 0]

\* date-fns format(date, 'yyyy-MM-dd'): keeps the calendar day, drops the time
format(date) == IsoDate(Day(date))

\* chrono-node parse(input): the date expressions of the text in the order
\* in which they occur, each with the date it denotes.  A date-only
\* expression implies 12:00; the casual phrases keep the time of day of the
\* reference instant.
IsDateToken(tok) == tok.k \in {"phrase", "iso"}
chronoDate(tok, now) ==
  IF tok.k = "iso" THEN tok.d * DayLen + Noon
  ELSE IF tok.v = "tomorrow" THEN now + DayLen
  ELSE IF tok.v = "this weekend" THEN (Day(now) + 2) * DayLen + Noon
  ELSE now
chronoParse(input) == SelectSeq(input, IsDateToken)

RECURSIVE RemoveFirst(_, _)
\* String.prototype.replace(text, ''): removes the first occurrence only
RemoveFirst(s, tok) ==
  IF s = <<>> THEN <<>>
  ELSE IF Head(s) = tok THEN Tail(s)
  ELSE <<Head(s)>> \o RemoveFirst(Tail(s), tok)

\* Object.entries(categoryKeywords): insertion order of the literal
categoryKeywords == <<
  [cat |-> "shopping", keywords |-> {"buy", "purchase", "shop", "grocery", "milk", "bread", "food", "clothes", "shirt", "pants"}],
  [cat |-> "work", keywords |-> {"meeting", "call", "email", "report", "presentation", "deadline", "project", "client", "boss"}],
  [cat |-> "health", keywords |-> {"exercise", "workout", "gym", "doctor", "appointment", "medicine", "vitamin", "run", "walk"}],
  [cat |-> "home", keywords |-> {"clean", "laundry", "dishes", "cook", "repair", "maintenance", "organize", "declutter"}],
  [cat |-> "finance", keywords |-> {"bill", "payment", "budget", "expense", "tax", "investment", "save", "money", "bank"}],
  [cat |-> "personal", keywords |-> {"call", "visit", "birthday", "anniversary", "party", "dinner", "lunch", "coffee"}] >>

\* String.prototype.toLowerCase on a word
toLowerCase(v) ==
  IF v = "Buy" THEN "buy"
  ELSE IF v = "Call" THEN "call"
  ELSE IF v = "MEETING" THEN "meeting"
  ELSE IF v = "DAILY" THEN "daily"
  ELSE v

\* the keywords that occur inside a (lower-case) word, the word itself aside
Infixes(v) ==
  IF v = "workshop" THEN {"shop"}
  ELSE IF v = "recall" THEN {"call"}
  ELSE IF v = "brunch" THEN {"run"}
  ELSE {}

Includes_WholeWord(input, keyword) == \E i \in DOMAIN input : input[i].v = keyword

\* lowerInput.includes(keyword): the keyword occurs somewhere in the lower-cased
\* text (no keyword has a blank, so it occurs inside one token)
Includes(input, keyword) ==
  \E i \in DOMAIN input :
    LET w == toLowerCase(input[i].v)
    IN keyword = w \/ keyword \in Infixes(w)

IsTagToken(tok) == tok.k = "tag"
RepeatLiterals == {"daily", "weekly", "monthly", "yearly"}

\* /repeat:(daily|weekly|monthly|yearly)/i matches the token
IsRepeatToken(tok) == tok.k = "repeat" /\ toLowerCase(tok.v) \in RepeatLiterals
NotTagToken(tok) == tok.k # "tag"

parseTaskInput(input, now) ==
  LET parsedDate == chronoParse(input)
      dueDate == IF Len(parsedDate) > 0 THEN chronoDate(parsedDate[1], now) ELSE UndefDate
      repeatMatch == SelectSeq(input, IsRepeatToken)
      repeat == IF Len(repeatMatch) > 0 THEN repeatMatch[1].v ELSE Undefined
      hits == {i \in DOMAIN categoryKeywords :
                 \E kw \in categoryKeywords[i].keywords : Includes(input, kw)}
      category == IF hits = {} THEN "personal"
                  ELSE categoryKeywords[CHOOSE i \in hits : \A j \in hits : i <= j].cat
      priority == IF Includes(input, "urgent") \/ Includes(input, "asap") \/ Includes(input, "important")
                  THEN "high"
                  ELSE IF Includes(input, "low priority") \/ Includes(input, "sometime")
                  THEN "low" ELSE "medium"
      tagToks == SelectSeq(input, IsTagToken)
      tags == [i \in DOMAIN tagToks |-> tagToks[i].v]
      t1 == IF IsDate(dueDate) THEN RemoveFirst(input, parsedDate[1]) ELSE input
      t2 == IF Len(repeatMatch) > 0 THEN RemoveFirst(t1, repeatMatch[1]) ELSE t1
      title == SelectSeq(t2, NotTagToken)
  IN [title |-> title, category |-> category, dueDate |-> dueDate,
      priority |-> priority, tags |-> tags, repeat |-> repeat]

\* createTask(input, priority?): priority = Undefined when the argument is omitted
createTask(input, priority, now) ==
  LET parsed == parseTaskInput(input, now)
      dueDate == IF IsDate(parsed.dueDate) THEN parsed.dueDate ELSE now
  IN [title |-> parsed.title,
      description |-> Undefined,
      completed |-> FALSE,
      status |-> "open",
      category |-> parsed.category,
      dueDate |-> dueDate,
      priority |-> IF priority # Undefined THEN priority ELSE parsed.priority,
      repeat |-> parsed.repeat,
      tags |-> parsed.tags,
      notes |-> "",
      createdAt |-> now,
      updatedAt |-> now]

\* ------------------------------------------------- persistence port (Firestore)
\* JavaScript `v || null` on a string field
OrNull(v) == IF v \in {Undefined, Null, ""} THEN Null ELSE v

\* addTask: the cleanTask literal
cleanTask(userId, task) ==
  [title |-> task.title,
   description |-> OrNull(task.description),
   notes |-> OrNull(task.notes),
   completed |-> task.completed,
   status |-> task.status,
   dueDate |-> IF IsDate(task.dueDate) THEN task.dueDate ELSE NullDate,
   category |-> task.category,
   priority |-> task.priority,
   repeat |-> OrNull(task.repeat),
   createdAt |-> task.createdAt,
   updatedAt |-> task.updatedAt,
   tags |-> task.tags,
   userId |-> userId]

UpdatableFields == {"title", "description", "notes", "completed", "status",
                    "dueDate", "category", "priority", "repeat", "tags"}

\* `updates.f !== undefined`
IsDefinedField(updates, f) ==
  /\ f \in DOMAIN updates
  /\ IF f = "dueDate" THEN updates[f] # UndefDate
     ELSE IF f \in {"description", "notes", "repeat", "status", "category", "priority"}
     THEN updates[f] # Undefined
     ELSE TRUE

\* updateTask: the cleanUpdates object; updatedAt is always the time of the call
cleanUpdates(updates, now) ==
  LET fields == {f \in UpdatableFields : IsDefinedField(updates, f)}
  IN [f \in fields \cup {"updatedAt"} |->
        IF f = "updatedAt" THEN now
        ELSE IF f \in {"description", "notes", "repeat"} THEN OrNull(updates[f])
        ELSE IF f = "dueDate" THEN (IF IsDate(updates[f]) THEN updates[f] ELSE NullDate)
        ELSE updates[f]]

updateDoc_KeepStamp(doc, upd) ==
  [f \in DOMAIN doc |-> IF f \in DOMAIN upd \ {"updatedAt"} THEN upd[f] ELSE doc[f]]

\* updateDoc(taskRef, cleanUpdates): the named fields are replaced, the rest kept
updateDoc(doc, upd) ==
  [f \in DOMAIN doc |-> IF f \in DOMAIN upd THEN upd[f] ELSE doc[f]]

deleteDoc_Keep(docs, id) == docs

\* deleteDoc(taskRef): the collection without the document of that id
deleteDoc(docs, id) == {d \in docs : d.id # id}

\* subscribeToUserTasks / getUserTasks: document to Task
fromDoc(doc) ==
  [doc EXCEPT !.dueDate = IF IsDate(doc.dueDate) THEN doc.dueDate ELSE UndefDate]

RECURSIVE QueryOrder(_)
\* orderBy('createdAt', 'desc'); equal keys in descending document id
QueryOrder(docs) ==
  IF docs = {} THEN <<>>
  ELSE LET first == CHOOSE d \in docs : \A e \in docs :
                       \/ d.createdAt > e.createdAt
                       \/ (d.createdAt = e.createdAt /\ d.id >= e.id)
       IN <<first>> \o QueryOrder(docs \ {first})

\* the snapshot the listener of userId receives
querySnapshot(docs, userId) ==
  LET q == QueryOrder({d \in docs : d.userId = userId})
  IN [i \in DOMAIN q |-> fromDoc(q[i])]

\* ------------------------------------------------------------ stats, filters
Count(tasks, Test(_)) == Len(SelectSeq(tasks, Test))

daysAgo_Ceil(task, now) == (now - task.updatedAt + DayLen - 1) \div DayLen

\* Math.floor((now - updatedAt) / one day)
daysAgo(task, now) == (now - task.updatedAt) \div DayLen

\* Date.getDay(): 0 is Sunday; the day that starts at time 0 is a Sunday
getDay(date) == Day(date) % 7

\* stats.weeklyCompletions after the loop over the completed tasks
weeklyCompletions(tasks, now) ==
  [d \in 0..6 |->
     Cardinality({i \in DOMAIN tasks :
                    /\ tasks[i].completed
                    /\ daysAgo(tasks[i], now) < 7
                    /\ getDay(tasks[i].updatedAt) = d})]

\* stats.categoryBreakdown: the number of tasks of every category that occurs
categoryBreakdown(tasks) ==
  [c \in {tasks[i].category : i \in DOMAIN tasks} |->
     Cardinality({i \in DOMAIN tasks : tasks[i].category = c})]

getTaskStats_PendingOpen(tasks, now) ==
  LET Completed(t) == t.completed
      Pending(t) == t.status = "open"
      Overdue(t) == ~t.completed /\ IsDate(t.dueDate) /\ t.dueDate < now
  IN [total |-> Len(tasks),
      completed |-> Count(tasks, Completed),
      pending |-> Count(tasks, Pending),
      overdue |-> Count(tasks, Overdue),
      weeklyCompletions |-> weeklyCompletions(tasks, now),
      categoryBreakdown |-> categoryBreakdown(tasks)]

getTaskStats(tasks, now) ==
  LET Completed(t) == t.completed
      Pending(t) == ~t.completed
      Overdue(t) == ~t.completed /\ IsDate(t.dueDate) /\ t.dueDate < now
  IN [total |-> Len(tasks),
      completed |-> Count(tasks, Completed),
      pending |-> Count(tasks, Pending),
      overdue |-> Count(tasks, Overdue),
      weeklyCompletions |-> weeklyCompletions(tasks, now),
      categoryBreakdown |-> categoryBreakdown(tasks)]

isToday(date, now) == Day(date) = Day(now)

\* isTaskOverdue(task): the calendar day of the due date is before today
isTaskOverdue(task, now) ==
  IF ~IsDate(task.dueDate) \/ task.status = "done" THEN FALSE
  ELSE Day(task.dueDate) < Day(now)

priorityOrder(p) == IF p = "high" THEN 3 ELSE IF p = "medium" THEN 2 ELSE 1

compareTasks_DueDateFirst(a, b) ==
  IF IsDate(a.dueDate) /\ IsDate(b.dueDate) /\ a.dueDate # b.dueDate THEN a.dueDate - b.dueDate
  ELSE IF priorityOrder(a.priority) # priorityOrder(b.priority)
  THEN priorityOrder(b.priority) - priorityOrder(a.priority)
  ELSE IF IsDate(a.dueDate) /\ IsDate(b.dueDate) THEN 0
  ELSE IF IsDate(a.dueDate) THEN -1
  ELSE IF IsDate(b.dueDate) THEN 1
  ELSE b.createdAt - a.createdAt

\* the comparator of filterTasks: negative when a sorts before b
compareTasks(a, b) ==
  IF priorityOrder(a.priority) # priorityOrder(b.priority)
  THEN priorityOrder(b.priority) - priorityOrder(a.priority)
  ELSE IF IsDate(a.dueDate) /\ IsDate(b.dueDate) THEN a.dueDate - b.dueDate
  ELSE IF IsDate(a.dueDate) THEN -1
  ELSE IF IsDate(b.dueDate) THEN 1
  ELSE b.createdAt - a.createdAt

RECURSIVE InsertSorted(_, _)
InsertSorted(sorted, x) ==
  IF sorted = <<>> THEN <<x>>
  ELSE IF compareTasks(x, Head(sorted)) < 0 THEN <<x>> \o sorted
  ELSE <<Head(sorted)>> \o InsertSorted(Tail(sorted), x)

RECURSIVE SortTasks(_)
\* Array.prototype.sort with the comparator: a stable sort
SortTasks(s) ==
  IF s = <<>> THEN <<>>
  ELSE InsertSorted(SortTasks(SubSeq(s, 1, Len(s) - 1)), s[Len(s)])

ViewModes == {"today", "upcoming", "calendar", "important", "stats", "all"}

viewModeFilter_DueToday(tasks, viewMode, now) ==
  LET Today(t) == IsDate(t.dueDate) /\ isToday(t.dueDate, now)
      Upcoming(t) == IsDate(t.dueDate) /\ t.dueDate > now
      Important(t) == t.priority = "high"
  IN IF viewMode = "today" THEN SelectSeq(tasks, Today)
     ELSE IF viewMode = "upcoming" THEN SelectSeq(tasks, Upcoming)
     ELSE IF viewMode = "important" THEN SelectSeq(tasks, Important)
     ELSE tasks

viewModeFilter(tasks, viewMode, now) ==
  LET Today(t) == (IsDate(t.dueDate) /\ isToday(t.dueDate, now))
                    \/ (IsDate(t.dueDate) /\ t.dueDate < now)
      Upcoming(t) == IsDate(t.dueDate) /\ t.dueDate > now
      Important(t) == t.priority = "high"
  IN IF viewMode = "today" THEN SelectSeq(tasks, Today)
     ELSE IF viewMode = "upcoming" THEN SelectSeq(tasks, Upcoming)
     ELSE IF viewMode = "important" THEN SelectSeq(tasks, Important)
     ELSE tasks

searchFilter(tasks, searchTerm) ==
  LET Match(t) == \/ \E i \in DOMAIN t.title : t.title[i].v = searchTerm
                  \/ t.description = searchTerm
                  \/ t.category = searchTerm
                  \/ \E i \in DOMAIN t.tags : t.tags[i] = searchTerm
  IN IF searchTerm # "" THEN SelectSeq(tasks, Match) ELSE tasks

filterTasks(tasks, viewMode, searchTerm, now) ==
  SortTasks(searchFilter(viewModeFilter(tasks, viewMode, now), searchTerm))

\* filterTasks sorts `filtered` in place; when neither filter ran, `filtered`
\* is still the array it was given
SortsArgumentInPlace(viewMode, searchTerm) ==
  viewMode \notin {"today", "upcoming", "important"} /\ searchTerm = ""

getFilteredTasks_Searching(tasks, viewMode, searchTerm, selectedCategory, now) ==
  LET InCategory(t) == t.category = selectedCategory
  IN IF selectedCategory # Null
     THEN filterTasks(SelectSeq(tasks, InCategory), viewMode, searchTerm, now)
     ELSE filterTasks(tasks, viewMode, searchTerm, now)

\* TaskProvider.getFilteredTasks; selectedCategory = Null when none is selected
getFilteredTasks(tasks, viewMode, searchTerm, selectedCategory, now) ==
  LET InCategory(t) == t.category = selectedCategory
  IN IF selectedCategory # Null
     THEN SelectSeq(tasks, InCategory)
     ELSE filterTasks(tasks, viewMode, searchTerm, now)

\* state.tasks after a render of TaskProvider
tasksAfterRender(tasks, viewMode, searchTerm, selectedCategory) ==
  IF selectedCategory = Null /\ SortsArgumentInPlace(viewMode, searchTerm)
  THEN SortTasks(tasks) ELSE tasks

\* --------------------------------------------------------- EditTaskModal form
\* the useEffect that fills the form from the task being edited; the date
\* input holds a calendar day (-1 for the empty string)
editFormOf(task) ==
  [title |-> task.title,
   description |-> IF task.description \in {Undefined, Null} THEN "" ELSE task.description,
   category |-> task.category,
   priority |-> task.priority,
   dueDate |-> IF IsDate(task.dueDate) THEN Day(task.dueDate) ELSE -1,
   tags |-> task.tags]

\* what the user does to the form before submitting it
FormChanges == {"none", "clearDueDate", "setDueDate", "setDescription", "clearDescription"}
changeForm(form, change) ==
  IF change = "clearDueDate" THEN [form EXCEPT !.dueDate = -1]
  ELSE IF change = "setDueDate" THEN [form EXCEPT !.dueDate = 1]
  ELSE IF change = "setDescription" THEN [form EXCEPT !.description = "details"]
  ELSE IF change = "clearDescription" THEN [form EXCEPT !.description = ""]
  ELSE form

\* EditTaskModal.handleSubmit: the updatedTask handed to updateTask
editedTask(task, form, now) ==
  [task EXCEPT !.title = form.title,
               !.description = IF form.description = "" THEN Undefined ELSE form.description,
               !.category = form.category,
               !.priority = form.priority,
               !.dueDate = IF form.dueDate >= 0 THEN form.dueDate * DayLen ELSE UndefDate,
               !.tags = form.tags,
               !.updatedAt = now]

\* ---------------------------------------------------------- AddTaskModal form
Titles == { <<Word("buy"), Word("milk")>>,
            <<Word("buy"), Word("milk"), Phrase("tomorrow")>> }
CustomDates == {UndefDate, 2 * DayLen + 1}
RepeatOptions == {Undefined, "daily"}

\* AddTaskModal.handleSubmit: the text handed to addTask / addTaskWithPriority
taskInputOf(title, customDate, repeatOption, now) ==
  LET parsedInput == parseTaskInput(title, now)
      withDate == IF IsDate(customDate) THEN Append(title, format(customDate))
                  ELSE IF IsDate(parsedInput.dueDate) THEN Append(title, format(parsedInput.dueDate))
                  ELSE title
  IN IF repeatOption # Undefined THEN Append(withDate, RepeatTok(repeatOption)) ELSE withDate

\* ----------------------------------------------------------------- the state
VARIABLES
  user,              \* useAuth().user: NoUser or a user id
  mounted,           \* TaskProvider is mounted
  tasks,             \* state.tasks
  stats,             \* state.stats
  viewMode,          \* state.viewMode
  searchTerm,        \* state.searchTerm
  selectedCategory,  \* state.selectedCategory
  filteredTasks,     \* the filteredTasks of the last render
  db,                \* the documents of the 'tasks' collection
  usedIds,           \* document ids handed out so far
  pending,           \* port calls awaiting their outcome
  calls,             \* number of port calls made so far
  live,              \* listeners registered with onSnapshot
  unsub,             \* the unsubscribe handle the effect holds (0: none)
  acquired,          \* number of subscriptions acquired so far
  released,          \* per subscription: how often it was unsubscribed
  now,               \* the clock
  lastOp,            \* history: the outcome of a port call, if the step just
                     \* taken was one
  inputText,         \* the text parseTaskInput is called with
  parsed,            \* what the last call of parseTaskInput returned
  settings,          \* state.settings
  settingsFrom,      \* history: whose settings state.settings holds (NoUser:
                     \* the defaults of initialState)
  userSettings,      \* the documents of the 'userSettings' collection
  settingsCalls      \* getUserSettings / updateUserSettings calls in flight

progVars == <<user, mounted, tasks, stats, viewMode, searchTerm, selectedCategory,
              filteredTasks, db, usedIds, pending, calls, live, unsub, acquired,
              released>>
parseVars == <<inputText, parsed>>
settingsVars == <<settings, settingsFrom, userSettings, settingsCalls>>
vars == <<user, mounted, tasks, stats, viewMode, searchTerm, selectedCategory,
          filteredTasks, db, usedIds, pending, calls, live, unsub, acquired,
          released, now, lastOp, inputText, parsed,
          settings, settingsFrom, userSettings, settingsCalls>>

\* parsed before parseTaskInput was called
NotParsed ==
  [title |-> <<>>, category |-> Undefined, dueDate |-> UndefDate,
   priority |-> Undefined, tags |-> <<>>, repeat |-> Undefined]

\* lastOp when the step just taken was not the outcome of a port call
\* state.settings is represented by its theme (the other four fields are
\* carried the same way)
Themes == {"system", "dark", "light"}
initialSettings == "system"

\* the settings documents when the provider mounts: user A saved a dark theme
\* in an earlier session, the other users have no document
StoredSettings == [u \in Users |-> IF u = "A" THEN "dark" ELSE Null]

NoOutcome ==
  [op |-> "none", cmd |-> "", id |-> 0, uid |-> NoUser, threw |-> FALSE,
   snapCompleted |-> FALSE, custom |-> UndefDate, arg |-> <<>>]

initialStats ==
  [total |-> 0, completed |-> 0, pending |-> 0, overdue |-> 0,
   weeklyCompletions |-> [d \in 0..6 |-> 0], categoryBreakdown |-> <<>>]

\* the documents the collection may hold when the provider mounts: none, or a
\* task that user A added in an earlier session
PlainTitle == <<Word("buy"), Word("milk")>>
StoredTask ==
  LET data == cleanTask("A", createTask(PlainTitle, Undefined, 0))
  IN [f \in DOMAIN data \cup {"id"} |-> IF f = "id" THEN 1 ELSE data[f]]
InitialStores == {{}, {StoredTask}}

Init ==
  /\ user = NoUser
  /\ mounted = TRUE
  /\ tasks = <<>>
  /\ stats = initialStats
  /\ viewMode = "today"
  /\ searchTerm = ""
  /\ selectedCategory = Null
  /\ filteredTasks = <<>>
  /\ db \in InitialStores
  /\ usedIds = {d.id : d \in db}
  /\ pending = <<>>
  /\ calls = 0
  /\ live = {}
  /\ unsub = 0
  /\ acquired = 0
  /\ released = [s \in {} |-> 0]
  /\ now = 0
  /\ lastOp = NoOutcome
  /\ inputText = <<>>
  /\ parsed = NotParsed
  /\ settings = initialSettings
  /\ settingsFrom = NoUser
  /\ userSettings = StoredSettings
  /\ settingsCalls = {}

\* ------------------------------------------------------ reducer and rendering
\* taskReducer LOAD_TASKS followed by the render it causes
LoadTasks(payload) ==
  /\ stats' = getTaskStats(payload, now)
  /\ tasks' = tasksAfterRender(payload, viewMode, searchTerm, selectedCategory)
  /\ filteredTasks' = getFilteredTasks(payload, viewMode, searchTerm, selectedCategory, now)

\* a render after viewMode, searchTerm or selectedCategory changed
Render(vm, st, sel) ==
  /\ tasks' = tasksAfterRender(tasks, vm, st, sel)
  /\ filteredTasks' = getFilteredTasks(tasks, vm, st, sel, now)
  /\ UNCHANGED stats

\* ------------------------------------------------ settings effects (TaskProvider)
\* a getUserSettings or updateUserSettings call in flight; from records whose
\* settings the call carries.  Equal calls in flight are kept once.
SettingsCall(kind, uid, value, from) ==
  [kind |-> kind, uid |-> uid, value |-> value, from |-> from]

\* "Load user settings from Firebase": if (!user) return; loadSettings()
loadSettingsEffect(u) ==
  IF u = NoUser THEN {} ELSE {SettingsCall("get", u, Null, NoUser)}

\* "Save settings to Firebase whenever settings change": runs when
\* state.settings or user changed; if (!user || !state.settings) return
saveSettingsEffect(u, value, from) ==
  IF u = NoUser THEN {} ELSE {SettingsCall("set", u, value, from)}

\* both effects after user became newUser
SettingsEffects(newUser) ==
  /\ settingsCalls' = settingsCalls \cup loadSettingsEffect(newUser)
                                    \cup saveSettingsEffect(newUser, settings, settingsFrom)
  /\ UNCHANGED <<settings, settingsFrom, userSettings>>

\* ------------------------------------------- subscription effect (TaskProvider)
liveAfterCleanup_Leak == live

\* the cleanup `() => unsubscribe()` of the effect that is being replaced
liveAfterCleanup == {s \in live : s.sid # unsub}
releasedAfterCleanup ==
  IF unsub # 0 THEN [released EXCEPT ![unsub] = @ + 1] ELSE released

\* the effect body for the new value of user, run after the cleanup
UserEffect(newUser) ==
  IF newUser = NoUser
  THEN /\ LoadTasks(<<>>)
       /\ live' = liveAfterCleanup
       /\ released' = releasedAfterCleanup
       /\ unsub' = 0
       /\ UNCHANGED acquired
  ELSE /\ Render(viewMode, searchTerm, selectedCategory)
       /\ acquired' = acquired + 1
       /\ live' = liveAfterCleanup \cup {[sid |-> acquired + 1, uid |-> newUser]}
       /\ released' = [s \in DOMAIN releasedAfterCleanup \cup {acquired + 1} |->
                         IF s = acquired + 1 THEN 0 ELSE releasedAfterCleanup[s]]
       /\ unsub' = acquired + 1

SignIn(u) ==
  /\ UNCHANGED parseVars
  /\ SettingsEffects(u)
  /\ mounted /\ user = NoUser /\ acquired < MaxSubs
  /\ user' = u
  /\ UserEffect(u)
  /\ lastOp' = NoOutcome
  /\ UNCHANGED <<mounted, viewMode, searchTerm, selectedCategory, db, usedIds, pending, calls, now>>

SignOut ==
  /\ UNCHANGED <<parseVars, settingsVars>>
  /\ mounted /\ user # NoUser
  /\ user' = NoUser
  /\ UserEffect(NoUser)
  /\ lastOp' = NoOutcome
  /\ UNCHANGED <<mounted, viewMode, searchTerm, selectedCategory, db, usedIds, pending, calls, now>>

\* onAuthStateChanged reports another user without a sign-out in between
ChangeUser(u) ==
  /\ UNCHANGED parseVars
  /\ SettingsEffects(u)
  /\ mounted /\ user # NoUser /\ u # user /\ acquired < MaxSubs
  /\ user' = u
  /\ UserEffect(u)
  /\ lastOp' = NoOutcome
  /\ UNCHANGED <<mounted, viewMode, searchTerm, selectedCategory, db, usedIds, pending, calls, now>>

\* TaskProvider unmounts: the cleanup of the current effect runs
Unmount ==
  /\ UNCHANGED <<parseVars, settingsVars>>
  /\ mounted
  /\ mounted' = FALSE
  /\ live' = liveAfterCleanup
  /\ released' = releasedAfterCleanup
  /\ unsub' = 0
  /\ lastOp' = NoOutcome
  /\ UNCHANGED <<user, tasks, stats, viewMode, searchTerm, selectedCategory,
                 filteredTasks, db, usedIds, pending, calls, acquired, now>>

\* the onSnapshot callback of a registered listener: dispatch LOAD_TASKS
Notify(s) ==
  /\ UNCHANGED <<parseVars, settingsVars>>
  /\ mounted /\ s \in live
  /\ LoadTasks(querySnapshot(db, s.uid))
  /\ lastOp' = NoOutcome
  /\ UNCHANGED <<user, mounted, viewMode, searchTerm, selectedCategory, db, usedIds,
                 pending, calls, live, unsub, acquired, released, now>>

\* ------------------------------------------------------------- view selectors
SearchTerms == {"", "milk"}
Categories == {Null, "shopping", "work"}

SetViewMode(mode) ==
  /\ UNCHANGED <<parseVars, settingsVars>>
  /\ mounted
  /\ viewMode' = mode
  /\ Render(mode, searchTerm, selectedCategory)
  /\ lastOp' = NoOutcome
  /\ UNCHANGED <<user, mounted, searchTerm, selectedCategory, db, usedIds, pending, calls,
                 live, unsub, acquired, released, now>>

SetSearchTerm(term) ==
  /\ UNCHANGED <<parseVars, settingsVars>>
  /\ mounted
  /\ searchTerm' = term
  /\ Render(viewMode, term, selectedCategory)
  /\ lastOp' = NoOutcome
  /\ UNCHANGED <<user, mounted, viewMode, selectedCategory, db, usedIds, pending, calls,
                 live, unsub, acquired, released, now>>

SetSelectedCategory(category) ==
  /\ UNCHANGED <<parseVars, settingsVars>>
  /\ mounted
  /\ selectedCategory' = category
  /\ Render(viewMode, searchTerm, category)
  /\ lastOp' = NoOutcome
  /\ UNCHANGED <<user, mounted, viewMode, searchTerm, db, usedIds, pending, calls,
                 live, unsub, acquired, released, now>>

\* ------------------------------------------------------------------- commands
HasSession_Always(u) == TRUE

\* `if (!user) return;`
HasSession(u) == u # NoUser

findTask_Store(ts, id) ==
  LET WithId(t) == t.id = id IN SelectSeq(querySnapshot(db, user), WithId)

\* state.tasks.find(t => t.id === id); <<>> when there is none
findTask(ts, id) ==
  LET WithId(t) == t.id = id IN SelectSeq(ts, WithId)

\* A port call in flight.  kind is the port operation; cmd, snapCompleted,
\* custom and arg record the command that made the call (arg: the task object
\* the command worked from).
Write(kind, cmd, id, data) ==
  [kind |-> kind, cmd |-> cmd, id |-> id, uid |-> user, data |-> data,
   snapCompleted |-> FALSE, custom |-> UndefDate, arg |-> <<>>]

\* a command that returns before it reaches the port: without a session
\* (recorded in lastOp), or because state.tasks holds no task with the id
Returns(cmd, id) ==
  /\ UNCHANGED <<parseVars, settingsVars>>
  /\ lastOp' = IF HasSession(user) THEN NoOutcome
               ELSE [NoOutcome EXCEPT !.op = "returned"]
  /\ UNCHANGED <<progVars, now>>

\* a command that calls the port and awaits the outcome
Calls(w) ==
  /\ UNCHANGED <<parseVars, settingsVars>>
  /\ Len(pending) < MaxPending /\ calls < MaxCalls
  /\ pending' = Append(pending, w)
  /\ calls' = calls + 1
  /\ lastOp' = NoOutcome
  /\ UNCHANGED <<user, mounted, viewMode, searchTerm, selectedCategory, db, usedIds,
                 live, unsub, acquired, released, now>>

tasksAfterAdd_Optimistic(ts, newDoc) ==
  Append(ts, [f \in DOMAIN newDoc \cup {"id"} |-> IF f = "id" THEN 0 ELSE newDoc[f]])

\* addTask / addTaskWithPriority dispatch nothing: "The real-time listener
\* will update the local state"
tasksAfterAdd(ts, newDoc) == ts

PendingAdds == Len(SelectSeq(pending, LAMBDA w : w.kind = "add"))

\* addTask(input) and addTaskWithPriority(input, priority)
AddTaskCmd(cmd, input, priority, custom) ==
  IF ~HasSession(user) THEN Returns(cmd, 0)
  ELSE /\ Cardinality(usedIds) + PendingAdds < MaxIds
       /\ LET newTask == createTask(input, priority, now)
              newDoc == cleanTask(user, newTask)
          IN /\ Calls([Write("add", cmd, 0, newDoc) EXCEPT !.custom = custom, !.arg = newTask])
             /\ tasks' = tasksAfterAdd(tasks, newDoc)
       /\ UNCHANGED <<stats, filteredTasks>>

\* AddTaskModal.handleSubmit
SubmitAddTask(title, customDate, isImportant, repeatOption) ==
  /\ mounted
  /\ LET taskInput == taskInputOf(title, customDate, repeatOption, now)
     IN IF isImportant
        THEN AddTaskCmd("addTaskWithPriority", taskInput, "high", customDate)
        ELSE AddTaskCmd("addTask", taskInput, Undefined, customDate)

\* the task objects a component can hand to updateTask
HeldTasks == IF user = NoUser THEN {fromDoc(d) : d \in db} ELSE Range(tasks)

\* updateTask(task), called from EditTaskModal.handleSubmit
UpdateTask(task, change) ==
  /\ mounted
  /\ LET full == editedTask(task, changeForm(editFormOf(task), change), now)
     IN IF ~HasSession(user) THEN Returns("updateTask", task.id)
        ELSE /\ Calls([Write("update", "updateTask", task.id, cleanUpdates(full, now))
                         EXCEPT !.arg = full])
             /\ UNCHANGED <<tasks, stats, filteredTasks>>

updateTaskStatusUpdates(status) ==
  [status |-> status, completed |-> (status = "done"), updatedAt |-> now]

UpdateTaskStatus(id, status) ==
  /\ mounted
  /\ IF ~HasSession(user) THEN Returns("updateTaskStatus", id)
     ELSE /\ Calls(Write("update", "updateTaskStatus", id,
                         cleanUpdates(updateTaskStatusUpdates(status), now)))
          /\ UNCHANGED <<tasks, stats, filteredTasks>>

DeleteTask(id) ==
  /\ mounted
  /\ IF ~HasSession(user) THEN Returns("deleteTask", id)
     ELSE /\ Calls(Write("delete", "deleteTask", id, [updatedAt |-> now]))
          /\ UNCHANGED <<tasks, stats, filteredTasks>>

toggleTaskUpdates_Reducer(task) ==
  [completed |-> ~task.completed,
   status |-> IF ~task.completed /\ task.status = "done" THEN "open" ELSE task.status,
   updatedAt |-> now]

toggleTaskUpdates_InProgress(task) ==
  [completed |-> ~task.completed,
   status |-> IF ~task.completed THEN "done" ELSE "in-progress",
   updatedAt |-> now]

toggleTaskUpdates(task) ==
  [completed |-> ~task.completed,
   status |-> IF ~task.completed THEN "done" ELSE "open",
   updatedAt |-> now]

ToggleTask(id) ==
  /\ mounted
  /\ IF ~HasSession(user) \/ findTask(tasks, id) = <<>> THEN Returns("toggleTask", id)
     ELSE LET task == findTask(tasks, id)[1]
          IN /\ Calls([Write("update", "toggleTask", id,
                             cleanUpdates(toggleTaskUpdates(task), now))
                         EXCEPT !.snapCompleted = task.completed])
             /\ UNCHANGED <<tasks, stats, filteredTasks>>

toggleImportantUpdates_Cycle3(task) ==
  [priority |-> IF task.priority = "high" THEN "low"
                ELSE IF task.priority = "medium" THEN "high" ELSE "medium",
   updatedAt |-> now]

toggleImportantUpdates(task) ==
  [priority |-> IF task.priority = "high" THEN "medium" ELSE "high",
   updatedAt |-> now]

ToggleImportant(id) ==
  /\ mounted
  /\ IF ~HasSession(user) \/ findTask(tasks, id) = <<>> THEN Returns("toggleImportant", id)
     ELSE LET task == findTask(tasks, id)[1]
          IN /\ Calls([Write("update", "toggleImportant", id,
                             cleanUpdates(toggleImportantUpdates(task), now))
                         EXCEPT !.arg = task])
             /\ UNCHANGED <<tasks, stats, filteredTasks>>

\* ------------------------------------------------------ outcome of a port call
RemoveAt(q, i) == SubSeq(q, 1, i - 1) \o SubSeq(q, i + 1, Len(q))

portFailure_Rethrow(kind) ==
  [value |-> Undefined, threw |-> TRUE]

\* the catch blocks of addTask / updateTask / deleteTask: log, return null or
\* false; the awaiting command then just skips its console.log
portFailure(kind) ==
  [value |-> IF kind = "add" THEN Null ELSE "false", threw |-> FALSE]

Outcome(op, w, id, threw) ==
  [op |-> op, cmd |-> w.cmd, id |-> id, uid |-> w.uid, threw |-> threw,
   snapCompleted |-> w.snapCompleted, custom |-> w.custom, arg |-> w.arg]

FreshIds_DateNow == {now + 1}

\* the auto-generated id of addDoc: one that no document ever had
FreshIds == Ids \ usedIds

\* addDoc resolves: the document exists under a fresh id
AckAdd(i) ==
  /\ UNCHANGED <<parseVars, settingsVars>>
  /\ i \in DOMAIN pending /\ pending[i].kind = "add"
  /\ \E id \in FreshIds :
       LET data == pending[i].data
           doc == [f \in DOMAIN data \cup {"id"} |-> IF f = "id" THEN id ELSE data[f]]
       IN /\ db' = db \cup {doc}
          /\ usedIds' = usedIds \cup {id}
          /\ lastOp' = Outcome("ack", pending[i], id, FALSE)
  /\ pending' = RemoveAt(pending, i)
  /\ UNCHANGED <<user, mounted, tasks, stats, viewMode, searchTerm, selectedCategory,
                 filteredTasks, calls, live, unsub, acquired, released, now>>

\* updateDoc resolves when the document exists
AckUpdate(i) ==
  /\ UNCHANGED <<parseVars, settingsVars>>
  /\ i \in DOMAIN pending /\ pending[i].kind = "update"
  /\ \E d \in db :
       /\ d.id = pending[i].id
       /\ db' = (db \ {d}) \cup {updateDoc(d, pending[i].data)}
  /\ lastOp' = Outcome("ack", pending[i], pending[i].id, FALSE)
  /\ pending' = RemoveAt(pending, i)
  /\ UNCHANGED <<user, mounted, tasks, stats, viewMode, searchTerm, selectedCategory,
                 filteredTasks, usedIds, calls, live, unsub, acquired, released, now>>

\* deleteDoc resolves, also when there is no such document
AckDelete(i) ==
  /\ UNCHANGED <<parseVars, settingsVars>>
  /\ i \in DOMAIN pending /\ pending[i].kind = "delete"
  /\ db' = deleteDoc(db, pending[i].id)
  /\ lastOp' = Outcome("ack", pending[i], pending[i].id, FALSE)
  /\ pending' = RemoveAt(pending, i)
  /\ UNCHANGED <<user, mounted, tasks, stats, viewMode, searchTerm, selectedCategory,
                 filteredTasks, usedIds, calls, live, unsub, acquired, released, now>>

\* the port call rejects (network, permission, updateDoc on a missing document)
Fail(i) ==
  /\ UNCHANGED <<parseVars, settingsVars>>
  /\ i \in DOMAIN pending
  /\ lastOp' = Outcome("fail", pending[i], pending[i].id, portFailure(pending[i].kind).threw)
  /\ pending' = RemoveAt(pending, i)
  /\ UNCHANGED <<user, mounted, tasks, stats, viewMode, searchTerm, selectedCategory,
                 filteredTasks, db, usedIds, calls, live, unsub, acquired, released, now>>

Tick ==
  /\ UNCHANGED <<parseVars, settingsVars>>
  /\ now < MaxTime
  /\ now' = now + 1
  /\ lastOp' = NoOutcome
  /\ UNCHANGED progVars

\* ------------------------------------------------------------------ settings
\* updateSettings(partial): dispatch UPDATE_SETTINGS; the save effect runs for
\* the new state.settings
UpdateSettings(theme) ==
  /\ UNCHANGED parseVars
  /\ mounted
  /\ settings' = theme
  /\ settingsFrom' = user
  /\ settingsCalls' = settingsCalls \cup saveSettingsEffect(user, settings', user)
  /\ lastOp' = NoOutcome
  /\ UNCHANGED <<progVars, userSettings, now>>

\* getUserSettings resolves: the document's data, or null when there is none
\* or the read failed; loadSettings dispatches UPDATE_SETTINGS for data, and
\* the save effect runs for the new state.settings and the current user
GetSettingsAck(c) ==
  /\ UNCHANGED parseVars
  /\ c \in settingsCalls /\ c.kind = "get"
  /\ \E result \in {userSettings[c.uid], Null} :
       IF result # Null /\ mounted
       THEN /\ settings' = result
            /\ settingsFrom' = c.uid
            /\ settingsCalls' = (settingsCalls \ {c}) \cup saveSettingsEffect(user, result, c.uid)
       ELSE /\ settingsCalls' = settingsCalls \ {c}
            /\ UNCHANGED <<settings, settingsFrom>>
  /\ lastOp' = NoOutcome
  /\ UNCHANGED <<progVars, userSettings, now>>

\* updateUserSettings resolves: setDoc(..., {merge: true}) wrote every field of
\* the settings it was given, or failed and returned false
SetSettingsAck(c) ==
  /\ UNCHANGED parseVars
  /\ c \in settingsCalls /\ c.kind = "set"
  /\ \E ok \in BOOLEAN :
       userSettings' = IF ok THEN [userSettings EXCEPT ![c.uid] = c.value] ELSE userSettings
  /\ settingsCalls' = settingsCalls \ {c}
  /\ lastOp' = NoOutcome
  /\ UNCHANGED <<progVars, settings, settingsFrom, now>>

\* ------------------------------------------------------------ specifications
Statuses == {"open", "in-progress", "done"}

\* the ids a component can hand to a command: the id of a task it was shown
\* (still stored or not), or an id no document ever has
UnknownId == MaxIds + 1
CommandIds == usedIds \cup {UnknownId}

\* the clock of the command surface stops here
MaxCmdTime == 1

\* the command surface of one signed-in session: every command, the outcomes
\* of the port calls, the change notifications
NextCmd ==
  \/ SignIn("A")
  \/ SignOut
  \/ \E s \in live : Notify(s)
  \/ SubmitAddTask(PlainTitle, UndefDate, FALSE, Undefined)
  \/ \E t \in HeldTasks, ch \in FormChanges : UpdateTask(t, ch)
  \/ \E id \in CommandIds, st \in Statuses : UpdateTaskStatus(id, st)
  \/ \E id \in CommandIds : DeleteTask(id)
  \/ \E id \in CommandIds : ToggleTask(id)
  \/ \E id \in CommandIds : ToggleImportant(id)
  \/ \E i \in DOMAIN pending : AckAdd(i)
  \/ \E i \in DOMAIN pending : AckUpdate(i)
  \/ \E i \in DOMAIN pending : AckDelete(i)
  \/ \E i \in DOMAIN pending : Fail(i)
  \/ (now < MaxCmdTime /\ Tick)

SpecCmd == Init /\ [][NextCmd]_vars

\* sessions: sign-in, sign-out, change of user, teardown of the provider
NextAuth ==
  \/ \E u \in Users : SignIn(u)
  \/ SignOut
  \/ \E u \in Users : ChangeUser(u)
  \/ Unmount
  \/ \E s \in live : Notify(s)
  \/ SubmitAddTask(PlainTitle, UndefDate, FALSE, Undefined)
  \/ \E id \in CommandIds : DeleteTask(id)
  \/ \E i \in DOMAIN pending : AckAdd(i)
  \/ \E i \in DOMAIN pending : AckDelete(i)
  \/ \E i \in DOMAIN pending : Fail(i)
  \/ Tick

SpecAuth == Init /\ [][NextAuth]_vars

\* the add-task form
NextForm ==
  \/ SignIn("A")
  \/ \E s \in live : Notify(s)
  \/ \E title \in Titles, cd \in CustomDates, imp \in BOOLEAN, rep \in RepeatOptions :
       SubmitAddTask(title, cd, imp, rep)
  \/ \E i \in DOMAIN pending : AckAdd(i)
  \/ \E i \in DOMAIN pending : Fail(i)
  \/ Tick

SpecForm == Init /\ [][NextForm]_vars

\* the filtered view
ViewTitles == {PlainTitle, <<Word("call"), Word("mom"), Word("urgent")>>}

NextView ==
  \/ SignIn("A")
  \/ \E s \in live : Notify(s)
  \/ \E m \in ViewModes : SetViewMode(m)
  \/ \E t \in SearchTerms : SetSearchTerm(t)
  \/ \E c \in Categories : SetSelectedCategory(c)
  \/ \E title \in ViewTitles : SubmitAddTask(title, UndefDate, FALSE, Undefined)
  \/ \E i \in DOMAIN pending : AckAdd(i)
  \/ Tick

SpecView == Init /\ [][NextView]_vars

\* ------------------------------------------------------------- the reducer
\* a task object without an id property (createTask returns Omit<Task, 'id'>)
NoId == 0

\* a createTask result as an element of state.tasks: the properties it lacks
\* read as undefined
asListed(newTask) ==
  [f \in DOMAIN newTask \cup {"id", "userId"} |->
     IF f = "id" THEN NoId ELSE IF f = "userId" THEN Undefined ELSE newTask[f]]

\* tasks.map(task => task.id === id ? Change(task) : task)
MapTask(ts, id, Change(_)) ==
  [i \in DOMAIN ts |-> IF ts[i].id = id THEN Change(ts[i]) ELSE ts[i]]

\* taskReducer(state, action) for the actions on the task list; state is the
\* tasks and stats of TaskState
taskReducer(state, action, clock) ==
  LET type == action.type
      payload == action.payload
      WithStats(updatedTasks) == [tasks |-> updatedTasks, stats |-> getTaskStats(updatedTasks, clock)]
      Replaced(task) == [payload EXCEPT !.updatedAt = clock]
      Moved(task) == [task EXCEPT !.status = payload.status,
                                  !.completed = (payload.status = "done"),
                                  !.updatedAt = clock]
      Toggled(task) == [task EXCEPT !.completed = ~task.completed,
                                    !.status = IF ~task.completed /\ task.status = "done"
                                               THEN "open" ELSE task.status,
                                    !.updatedAt = clock]
      Starred(task) == [task EXCEPT !.priority = IF task.priority = "high" THEN "medium" ELSE "high",
                                    !.updatedAt = clock]
      Others(task) == task.id # payload
  IN IF type = "ADD_TASK"
     THEN WithStats(Append(state.tasks, asListed(createTask(payload, Undefined, clock))))
     ELSE IF type = "ADD_TASK_WITH_PRIORITY"
     THEN WithStats(Append(state.tasks, asListed(createTask(payload.input, payload.priority, clock))))
     ELSE IF type = "UPDATE_TASK" THEN WithStats(MapTask(state.tasks, payload.id, Replaced))
     ELSE IF type = "UPDATE_TASK_STATUS" THEN WithStats(MapTask(state.tasks, payload.id, Moved))
     ELSE IF type = "DELETE_TASK" THEN WithStats(SelectSeq(state.tasks, Others))
     ELSE IF type = "TOGGLE_TASK" THEN WithStats(MapTask(state.tasks, payload, Toggled))
     ELSE IF type = "TOGGLE_IMPORTANT" THEN WithStats(MapTask(state.tasks, payload, Starred))
     ELSE IF type = "LOAD_TASKS" THEN WithStats(payload)
     ELSE state

\* dispatch(action) and the render that follows
Dispatch(action) ==
  /\ UNCHANGED <<parseVars, settingsVars>>
  /\ mounted
  /\ LET next == taskReducer([tasks |-> tasks, stats |-> stats], action, now)
     IN /\ stats' = next.stats
        /\ tasks' = tasksAfterRender(next.tasks, viewMode, searchTerm, selectedCategory)
        /\ filteredTasks' = getFilteredTasks(next.tasks, viewMode, searchTerm, selectedCategory, now)
  /\ lastOp' = NoOutcome
  /\ UNCHANGED <<user, mounted, viewMode, searchTerm, selectedCategory, db, usedIds,
                 pending, calls, live, unsub, acquired, released, now>>

\* the list may grow to this length through ADD_TASK
MaxTasks == 2

ReducerIds == Ids \cup {NoId}
LowTitle == <<Word("read"), Word("sometime")>>

\* the reducer alone: every action on the task list, dispatched in any order
NextReducer ==
  \/ \E text \in {LowTitle} :
       Len(tasks) < MaxTasks /\ Dispatch([type |-> "ADD_TASK", payload |-> text])
  \/ \E text \in {PlainTitle} :
       /\ Len(tasks) < MaxTasks
       /\ Dispatch([type |-> "ADD_TASK_WITH_PRIORITY",
                    payload |-> [input |-> text, priority |-> "high"]])
  \/ \E t \in Range(tasks), ch \in {"clearDueDate"} :
       Dispatch([type |-> "UPDATE_TASK",
                 payload |-> editedTask(t, changeForm(editFormOf(t), ch), now)])
  \/ \E id \in ReducerIds, st \in Statuses :
       Dispatch([type |-> "UPDATE_TASK_STATUS", payload |-> [id |-> id, status |-> st]])
  \/ \E id \in ReducerIds : Dispatch([type |-> "DELETE_TASK", payload |-> id])
  \/ \E id \in ReducerIds : Dispatch([type |-> "TOGGLE_TASK", payload |-> id])
  \/ \E id \in ReducerIds : Dispatch([type |-> "TOGGLE_IMPORTANT", payload |-> id])
  \/ \E u \in {"A"} : Dispatch([type |-> "LOAD_TASKS", payload |-> querySnapshot(db, u)])

SpecReducer == Init /\ [][NextReducer]_vars

\* the importance toggle on tasks of every priority
NextPriority ==
  \/ SignIn("A")
  \/ \E s \in live : Notify(s)
  \/ \E title \in {PlainTitle, LowTitle}, imp \in BOOLEAN :
       SubmitAddTask(title, UndefDate, imp, Undefined)
  \/ \E id \in CommandIds : ToggleImportant(id)
  \/ \E i \in DOMAIN pending : AckAdd(i)
  \/ \E i \in DOMAIN pending : AckUpdate(i)
  \/ Tick

SpecPriority == Init /\ [][NextPriority]_vars

\* ------------------------------------------------------ filterTasks on its own
\* the task lists filterTasks is applied to: every priority, due dates in the
\* past, present and future, and no due date
SamplePriorities == {"high", "medium", "low"}
SampleDueDates == {UndefDate, 0, 1, 2 * DayLen - 1}
SampleTask(id, priority, dueDate) ==
  [fromDoc(StoredTask) EXCEPT !.id = id, !.priority = priority, !.dueDate = dueDate]
SampleLists ==
  UNION {[1..n -> SamplePriorities \X SampleDueDates] : n \in 0..MaxTasks}
SampleTasks(choice) ==
  [i \in DOMAIN choice |-> SampleTask(i, choice[i][1], choice[i][2])]

\* a session of user A whose list was loaded under the initial view
InitFilter ==
  /\ user = "A"
  /\ mounted = TRUE
  /\ \E choice \in SampleLists : tasks = SampleTasks(choice)
  /\ stats = getTaskStats(tasks, 0)
  /\ viewMode = "today"
  /\ searchTerm = ""
  /\ selectedCategory = Null
  /\ filteredTasks = getFilteredTasks(tasks, "today", "", Null, 0)
  /\ db = {}
  /\ usedIds = {}
  /\ pending = <<>>
  /\ calls = 0
  /\ live = {[sid |-> 1, uid |-> "A"]}
  /\ unsub = 1
  /\ acquired = 1
  /\ released = [s \in {1} |-> 0]
  /\ now = 0
  /\ lastOp = NoOutcome
  /\ inputText = <<>>
  /\ parsed = NotParsed
  /\ settings = initialSettings
  /\ settingsFrom = NoUser
  /\ userSettings = StoredSettings
  /\ settingsCalls = loadSettingsEffect("A") \cup saveSettingsEffect("A", initialSettings, NoUser)

NextFilter ==
  \/ \E m \in ViewModes : SetViewMode(m)
  \/ \E t \in SearchTerms : SetSearchTerm(t)
  \/ \E c \in Categories : SetSelectedCategory(c)
  \/ Tick

SpecFilter == InitFilter /\ [][NextFilter]_vars

\* --------------------------------------------------- parseTaskInput on its own
\* the texts have at most this many tokens
MaxWords == 2

ParseTokens ==
  {Word("Buy"), Word("call"), Word("workshop"), Word("mom"), Word("dinner"),
   Word("urgent"), Tag("gym"), Phrase("tomorrow"), RepeatTok("daily"),
   RepeatTok("DAILY")}

\* "Call mom this weekend #family urgent", with 'this weekend' read by
\* chrono-node as a date expression or as two plain words
ScenarioB ==
  {<<Word("Call"), Word("mom")>> \o weekend \o <<Tag("family"), Word("urgent")>> :
     weekend \in {<<Phrase("this weekend")>>, <<Word("this"), Word("weekend")>>}}

ParseInputs == UNION {[1..n -> ParseTokens] : n \in 0..MaxWords} \cup ScenarioB

InitParse ==
  /\ user = NoUser
  /\ mounted = TRUE
  /\ tasks = <<>>
  /\ stats = initialStats
  /\ viewMode = "today"
  /\ searchTerm = ""
  /\ selectedCategory = Null
  /\ filteredTasks = <<>>
  /\ db = {}
  /\ usedIds = {}
  /\ pending = <<>>
  /\ calls = 0
  /\ live = {}
  /\ unsub = 0
  /\ acquired = 0
  /\ released = [s \in {} |-> 0]
  /\ now = 0
  /\ lastOp = NoOutcome
  /\ inputText \in ParseInputs
  /\ parsed = NotParsed
  /\ settings = initialSettings
  /\ settingsFrom = NoUser
  /\ userSettings = StoredSettings
  /\ settingsCalls = {}

\* a call parseTaskInput(input)
ParseTaskInput ==
  /\ parsed' = parseTaskInput(inputText, now)
  /\ lastOp' = NoOutcome
  /\ UNCHANGED <<progVars, settingsVars, now, inputText>>

NextParse ==
  \/ ParseTaskInput
  \/ Tick

SpecParse == InitParse /\ [][NextParse]_vars

\* ------------------------------------------- the order of tasks added in turn
DatedTitle == <<Word("mom"), IsoDate(1)>>

\* tasks appended by ADD_TASK at different times, with the due date taken from
\* the text or from the clock, listed under the 'today' and the 'all' view
NextOrder ==
  \/ \E text \in {DatedTitle, PlainTitle} :
       Len(tasks) < MaxTasks /\ Dispatch([type |-> "ADD_TASK", payload |-> text])
  \/ \E id \in ReducerIds : Dispatch([type |-> "TOGGLE_IMPORTANT", payload |-> id])
  \/ \E id \in ReducerIds : Dispatch([type |-> "DELETE_TASK", payload |-> id])
  \/ \E m \in {"today", "all"} : SetViewMode(m)
  \/ Tick

SpecOrder == Init /\ [][NextOrder]_vars

\* ------------------------------------------------- getTaskStats over the week
\* completion times a week before the clock's range, a day before it, and in it
SampleUpdated == {0 - 7 * DayLen, 1 - 7 * DayLen, MaxTime - 7 * DayLen, 0 - DayLen, 0}
SampleDoc(id, completed, updatedAt) ==
  [StoredTask EXCEPT !.id = id, !.completed = completed,
                     !.status = IF completed THEN "done" ELSE "open",
                     !.createdAt = updatedAt, !.updatedAt = updatedAt]
SampleStores ==
  UNION {{{SampleDoc(id, choice[id][1], choice[id][2]) : id \in ids} :
            choice \in [ids -> BOOLEAN \X SampleUpdated]} : ids \in SUBSET Ids}

\* a session of user A after the first notification, at time 0
InitStats ==
  /\ user = "A"
  /\ mounted = TRUE
  /\ db \in SampleStores
  /\ tasks = tasksAfterRender(querySnapshot(db, "A"), "today", "", Null)
  /\ stats = getTaskStats(querySnapshot(db, "A"), 0)
  /\ viewMode = "today"
  /\ searchTerm = ""
  /\ selectedCategory = Null
  /\ filteredTasks = getFilteredTasks(querySnapshot(db, "A"), "today", "", Null, 0)
  /\ usedIds = {d.id : d \in db}
  /\ pending = <<>>
  /\ calls = 0
  /\ live = {[sid |-> 1, uid |-> "A"]}
  /\ unsub = 1
  /\ acquired = 1
  /\ released = [s \in {1} |-> 0]
  /\ now = 0
  /\ lastOp = NoOutcome
  /\ inputText = <<>>
  /\ parsed = NotParsed
  /\ settings = initialSettings
  /\ settingsFrom = NoUser
  /\ userSettings = StoredSettings
  /\ settingsCalls = loadSettingsEffect("A") \cup saveSettingsEffect("A", initialSettings, NoUser)

NextStats ==
  \/ \E s \in live : Notify(s)
  \/ \E m \in ViewModes : SetViewMode(m)
  \/ Tick

SpecStats == InitStats /\ [][NextStats]_vars

\* ------------------------------------------------------- the settings effects
\* sessions of two users, a change of the theme, and the outcomes of the
\* settings reads and writes in any order
NextSettings ==
  \/ \E u \in Users : SignIn(u)
  \/ SignOut
  \/ \E theme \in {"light"} : UpdateSettings(theme)
  \/ \E c \in settingsCalls : GetSettingsAck(c)
  \/ \E c \in settingsCalls : SetSettingsAck(c)

SpecSettings == Init /\ [][NextSettings]_vars

\* everything together
Next ==
  \/ \E u \in Users : SignIn(u)
  \/ SignOut
  \/ \E u \in Users : ChangeUser(u)
  \/ Unmount
  \/ \E s \in live : Notify(s)
  \/ \E m \in ViewModes : SetViewMode(m)
  \/ \E t \in SearchTerms : SetSearchTerm(t)
  \/ \E c \in Categories : SetSelectedCategory(c)
  \/ \E title \in Titles \cup ViewTitles, cd \in CustomDates, imp \in BOOLEAN, rep \in RepeatOptions :
       SubmitAddTask(title, cd, imp, rep)
  \/ \E t \in HeldTasks, ch \in FormChanges : UpdateTask(t, ch)
  \/ \E id \in CommandIds, st \in Statuses : UpdateTaskStatus(id, st)
  \/ \E id \in CommandIds : DeleteTask(id)
  \/ \E id \in CommandIds : ToggleTask(id)
  \/ \E id \in CommandIds : ToggleImportant(id)
  \/ \E i \in DOMAIN pending : AckAdd(i)
  \/ \E i \in DOMAIN pending : AckUpdate(i)
  \/ \E i \in DOMAIN pending : AckDelete(i)
  \/ \E i \in DOMAIN pending : Fail(i)
  \/ \E theme \in Themes : UpdateSettings(theme)
  \/ \E c \in settingsCalls : GetSettingsAck(c)
  \/ \E c \in settingsCalls : SetSettingsAck(c)
  \/ Tick

Spec == Init /\ [][Next]_vars

\* ===================================================================== claims
DocOf(id) == {d \in db : d.id = id}
IsOutcome(op, cmds) == lastOp.op = op /\ lastOp.cmd \in cmds

Consistent(t) == t.completed = (t.status = "done")

\* C1: whatever the interleaving of updateTaskStatus and toggleTask commands,
\* of the outcomes of their writes and of the change notifications, every
\* persisted task and every in-memory task has completed = (status = 'done').
C1_StatusCompletedInvariant ==
  /\ \A d \in db : Consistent(d)
  /\ \A i \in DOMAIN tasks : Consistent(tasks[i])

\* an updateTaskStatus write lands while a toggleTask write, computed from a
\* snapshot that the store no longer agrees with, is still in flight
C1_Witness ==
  /\ IsOutcome("ack", {"updateTaskStatus"})
  /\ \E i \in DOMAIN pending, d \in DocOf(lastOp.id) :
       /\ pending[i].cmd = "toggleTask" /\ pending[i].id = d.id
       /\ d.completed # pending[i].snapCompleted

\* C2 (as claimed): the list is empty when nobody is signed in and holds only
\* tasks of the signed-in user otherwise.
C2_NoStaleUserTasks ==
  /\ user = NoUser => tasks = <<>>
  /\ \A i \in DOMAIN tasks : tasks[i].userId = user

\* C3: a step in which a command calls the port leaves tasks, stats and the
\* filtered view as they are; the set of listed tasks changes only in a step
\* that makes no port call and settles none, and then the list is empty
\* (sign-out) or the snapshot of a live subscription (LOAD_TASKS).
C3_OnlyNotificationsChangeList ==
  [][/\ calls' # calls =>
          tasks' = tasks /\ stats' = stats /\ filteredTasks' = filteredTasks
     /\ Range(tasks') # Range(tasks) =>
          /\ calls' = calls /\ pending' = pending /\ db' = db
          /\ \/ user' = NoUser /\ tasks' = <<>>
             \/ \E s \in live : Range(tasks') = Range(querySnapshot(db, s.uid))]_vars

\* an added task is persisted and not yet in the list
C3_Witness ==
  /\ IsOutcome("ack", {"addTask", "addTaskWithPriority"})
  /\ lastOp.uid = user
  /\ \A i \in DOMAIN tasks : tasks[i].id # lastOp.id
  /\ tasks # <<>>

\* C4: when a port call fails, nothing is thrown to the caller and tasks,
\* stats, the filtered view and the store are what they were.
C4_FailedCallChangesNothing ==
  [][lastOp'.op = "fail" =>
       /\ ~lastOp'.threw
       /\ tasks' = tasks /\ stats' = stats /\ filteredTasks' = filteredTasks
       /\ db' = db /\ usedIds' = usedIds]_vars

C4_Witness ==
  /\ IsOutcome("fail", {"updateTask", "toggleTask", "deleteTask"})
  /\ tasks # <<>>
  /\ calls = MaxCalls

\* C5: while nobody is signed in, the only steps that change the program
\* state are a sign-in, a clock tick and the outcome of a port call made
\* earlier; a command makes no port call and changes nothing.
C5_NoSessionNoEffect ==
  [][(user = NoUser /\ user' = NoUser /\ now' = now /\ lastOp'.op \notin {"ack", "fail"})
       => UNCHANGED progVars]_vars

\* a command has returned in a session-less state that follows a session
C5_Witness ==
  /\ lastOp.op = "returned"
  /\ user = NoUser /\ acquired > 0 /\ db # {}

\* C7: the write of toggleTask flips the completed value of the snapshot it
\* read; completing sets status 'done', un-completing sets status 'open'.
C7_ToggleTaskResult ==
  IsOutcome("ack", {"toggleTask"}) =>
    \A d \in DocOf(lastOp.id) :
      /\ d.completed = ~lastOp.snapCompleted
      /\ d.status = IF lastOp.snapCompleted THEN "open" ELSE "done"

\* scenario C: a done task is toggled and is open again
C7_Witness ==
  /\ IsOutcome("ack", {"toggleTask"})
  /\ lastOp.snapCompleted
  /\ \E d \in DocOf(lastOp.id) : d.status = "open" /\ ~d.completed

Absent(v) == v \in {Undefined, Null}
SameOptional(a, b) == (Absent(a) /\ Absent(b)) \/ a = b

\* C8 (as claimed): once updateTask(fullTask) is acknowledged, the task the
\* subscription delivers has every mutable field of fullTask, absent optional
\* fields included.
C8_UpdateReplacesAllFields ==
  IsOutcome("ack", {"updateTask"}) =>
    \A d \in DocOf(lastOp.id) :
      LET t == fromDoc(d)
          full == lastOp.arg
      IN /\ t.title = full.title /\ t.category = full.category
         /\ t.priority = full.priority /\ t.tags = full.tags
         /\ t.completed = full.completed /\ t.status = full.status
         /\ SameOptional(t.description, full.description)
         /\ SameOptional(t.notes, full.notes)
         /\ SameOptional(t.repeat, full.repeat)
         /\ t.dueDate = full.dueDate
         /\ t.updatedAt >= full.updatedAt

\* C9 (as claimed): a task created with a custom date is due on that day.
C9_CustomDateWins ==
  (IsOutcome("ack", {"addTask", "addTaskWithPriority"}) /\ IsDate(lastOp.custom)) =>
    \A d \in DocOf(lastOp.id) : Day(d.dueDate) = Day(lastOp.custom)

\* sessions --------------------------------------------------------------
LiveIds == {s.sid : s \in live}

InCategorySet(ts, category) == {t \in Range(ts) : t.category = category}

\* C10: after every step, when a category is selected the filtered view holds
\* exactly the listed tasks of that category, each once, whatever viewMode and
\* searchTerm are; the step that clears the category makes the view the
\* viewMode-and-search filtered list.
C10_CategoryFilterExclusive ==
  [][/\ selectedCategory' # Null =>
          /\ Range(filteredTasks') = InCategorySet(tasks', selectedCategory')
          /\ Len(filteredTasks') = Cardinality(InCategorySet(tasks', selectedCategory'))
     /\ (selectedCategory # Null /\ selectedCategory' = Null) =>
          filteredTasks' = filterTasks(tasks, viewMode, searchTerm, now)]_vars

\* the category view shows a task that neither the view mode nor the search
\* term would let through
C10_Witness ==
  /\ selectedCategory = "work" /\ viewMode = "upcoming" /\ searchTerm = "milk"
  /\ Len(tasks) = 2 /\ Len(filteredTasks) = 1

\* readers ---------------------------------------------------------------
\* C11 (as claimed): state.tasks, element order included, changes only in a
\* LOAD_TASKS step: it becomes the snapshot of a live subscription or, at
\* sign-out, the empty list; evaluating the filtered view never changes it.
C11_ReadersNeverMutate ==
  [][tasks' # tasks =>
       \/ user' = NoUser /\ tasks' = <<>>
       \/ \E s \in live : tasks' = querySnapshot(db, s.uid)]_vars

\* the reducer --------------------------------------------------------------
CompletedInList == {i \in DOMAIN tasks : tasks[i].completed}

\* C12: after every reducer action stats.total is the length of state.tasks,
\* stats.completed + stats.pending is stats.total, and stats.completed counts
\* the completed tasks of the list as it is now (stats are never those of an
\* earlier list).
C12_StatsMatchTasks ==
  /\ stats.total = Len(tasks)
  /\ stats.completed + stats.pending = stats.total
  /\ stats.completed = Cardinality(CompletedInList)

\* a list of two tasks, one of them completed while its status is not 'done'
C12_Witness ==
  /\ Len(tasks) = 2 /\ stats.completed = 1 /\ stats.pending = 1
  /\ \E i \in CompletedInList : tasks[i].status # "done"

\* importance ---------------------------------------------------------------
OtherImportance(p) == IF p = "high" THEN "medium" ELSE "high"

\* C13: when the write of toggleImportant is acknowledged the stored priority
\* is never 'low'; and when the command worked from the priority the store
\* held (the notification of the previous write had been delivered), the
\* stored priority goes from high to medium and from medium or low to high.
C13_ToggleImportantCycle ==
  [][(lastOp'.op = "ack" /\ lastOp'.cmd = "toggleImportant") =>
       \A d \in db, e \in db' :
         (d.id = lastOp'.id /\ e.id = lastOp'.id) =>
           /\ e.priority # "low"
           /\ lastOp'.arg.priority = d.priority => e.priority = OtherImportance(d.priority)]_vars

\* the second toggle of a task: it was high through the first and is medium again
C13_Witness ==
  /\ IsOutcome("ack", {"toggleImportant"})
  /\ lastOp.arg.updatedAt > lastOp.arg.createdAt
  /\ lastOp.arg.priority = "high"
  /\ \E d \in DocOf(lastOp.id) : d.priority = "medium" /\ d.title = PlainTitle

\* filterTasks --------------------------------------------------------------
\* a step that renders the view-mode filtered list without a search term
RendersViewMode ==
  now' = now /\ selectedCategory' = Null /\ searchTerm' = ""

DueTodayOrPast(t, time) ==
  IsDate(t.dueDate) /\ (Day(t.dueDate) = Day(time) \/ t.dueDate < time)
DueLater(t, time) == IsDate(t.dueDate) /\ t.dueDate > time
KeptIn(mode, ts, time) ==
  {t \in Range(ts) :
     \/ mode = "today" /\ DueTodayOrPast(t, time)
     \/ mode = "upcoming" /\ DueLater(t, time)
     \/ mode = "important" /\ t.priority = "high"
     \/ mode \notin {"today", "upcoming", "important"}}

Rank(p) == IF p = "high" THEN 3 ELSE IF p = "medium" THEN 2 ELSE 1

\* C15: in the list filterTasks returns, a task of higher priority is never
\* behind one of lower priority; among tasks of equal priority a later due
\* date is never ahead of an earlier one and a task without a due date is
\* never ahead of one with a due date.
C15_DefaultSortOrder ==
  [][(now' = now /\ selectedCategory' = Null) =>
       \A i, j \in DOMAIN filteredTasks' :
         i < j =>
           LET a == filteredTasks'[i]
               b == filteredTasks'[j]
           IN /\ Rank(a.priority) >= Rank(b.priority)
              /\ Rank(a.priority) = Rank(b.priority) =>
                   /\ (IsDate(a.dueDate) /\ IsDate(b.dueDate)) => a.dueDate <= b.dueDate
                   /\ IsDate(b.dueDate) => IsDate(a.dueDate)]_vars

\* scenario D: the high task due later is ahead of the medium task due earlier
C15_Witness ==
  /\ viewMode = "all" /\ selectedCategory = Null /\ Len(filteredTasks) = 2
  /\ filteredTasks = filterTasks(tasks, viewMode, searchTerm, now)
  /\ filteredTasks[1].priority = "high" /\ filteredTasks[2].priority = "medium"
  /\ IsDate(filteredTasks[2].dueDate)
  /\ filteredTasks[1].dueDate > filteredTasks[2].dueDate

\* deletion -----------------------------------------------------------------
\* C16: an acknowledged deleteTask reports no error and leaves no document of
\* that id; when there was none, the store, the list and the stats are what
\* they were.  A document that is gone never comes back, and every list that
\* is loaded afterwards holds only tasks the store still has.
C16_DeleteIsPermanent ==
  [][/\ (lastOp'.op = "ack" /\ lastOp'.cmd = "deleteTask") =>
          /\ ~lastOp'.threw
          /\ \A e \in db' : e.id # lastOp'.id
          /\ DocOf(lastOp'.id) = {} =>
               db' = db /\ tasks' = tasks /\ stats' = stats /\ filteredTasks' = filteredTasks
     /\ \A id \in usedIds : DocOf(id) = {} => \A e \in db' : e.id # id
     /\ tasks' # tasks => \A i \in DOMAIN tasks' : \E e \in db' : e.id = tasks'[i].id]_vars

\* deleteTask was acknowledged for an id the store never had a document for,
\* next to a task that is stored and listed
C16_Witness ==
  /\ IsOutcome("ack", {"deleteTask"})
  /\ lastOp.id \notin usedIds
  /\ db # {} /\ tasks # <<>>

\* the round trip through the store -----------------------------------------
\* C17 (as claimed): the task the subscription delivers for an acknowledged
\* addTask has every field of the task that was handed to the port; an
\* optional field is absent (undefined or null) on both sides or has the same
\* value on both.
C17_AddRoundTrip ==
  IsOutcome("ack", {"addTask", "addTaskWithPriority"}) =>
    \A d \in DocOf(lastOp.id) :
      LET t == fromDoc(d)
          written == lastOp.arg
      IN /\ t.title = written.title /\ t.category = written.category
         /\ t.priority = written.priority /\ t.tags = written.tags
         /\ t.completed = written.completed /\ t.status = written.status
         /\ t.createdAt = written.createdAt /\ t.updatedAt = written.updatedAt
         /\ t.dueDate = written.dueDate
         /\ SameOptional(t.description, written.description)
         /\ SameOptional(t.repeat, written.repeat)
         /\ SameOptional(t.notes, written.notes)

MutationCommands == {"updateTask", "updateTaskStatus", "toggleTask", "toggleImportant"}

\* C19: after every step each stored and each listed task has
\* updatedAt >= createdAt; a mutation command stamps its write with the time
\* of the call, the acknowledged write leaves that stamp on the document it
\* changed, and no step changes the createdAt of a document.
C19_UpdatedAtRefreshed ==
  [][/\ \A d \in db' : d.updatedAt >= d.createdAt
     /\ \A i \in DOMAIN tasks' : tasks'[i].updatedAt >= tasks'[i].createdAt
     /\ (calls' # calls /\ pending'[Len(pending')].cmd \in MutationCommands) =>
          pending'[Len(pending')].data.updatedAt = now
     /\ \A i \in DOMAIN pending :
          (/\ pending[i].cmd \in MutationCommands
           /\ lastOp'.op = "ack" /\ pending' = RemoveAt(pending, i)) =>
            \A e \in db' : e.id = pending[i].id => e.updatedAt = pending[i].data.updatedAt
     /\ \A d \in db, e \in db' : d.id = e.id => e.createdAt = d.createdAt]_vars

\* a task was changed at a later tick than it was created
C19_Witness ==
  /\ IsOutcome("ack", MutationCommands)
  /\ \E d \in DocOf(lastOp.id) : d.updatedAt > d.createdAt

\* the parser -----------------------------------------------------------------
CategoryOrder == <<"shopping", "work", "health", "home", "finance", "personal">>

\* the keyword is a substring of the lower-cased text
OccursIn(keyword, text) ==
  \E i \in DOMAIN text :
    keyword \in {toLowerCase(text[i].v)} \cup Infixes(toLowerCase(text[i].v))

KeywordsOf(category) ==
  UNION {categoryKeywords[i].keywords : i \in {j \in DOMAIN categoryKeywords :
                                                 categoryKeywords[j].cat = category}}
Matches(category, text) == \E keyword \in KeywordsOf(category) : OccursIn(keyword, text)

\* C20: the category parseTaskInput returns is the first of shopping, work,
\* health, home, finance, personal that has a keyword occurring as a substring
\* of the lower-cased input, and personal when none has; a further call with
\* the same input returns the same category.
C20_CategoryFirstMatch ==
  [][parsed' # NotParsed =>
       /\ \/ \E k \in DOMAIN CategoryOrder :
               /\ parsed'.category = CategoryOrder[k]
               /\ Matches(CategoryOrder[k], inputText')
               /\ \A h \in 1..(k - 1) : ~Matches(CategoryOrder[h], inputText')
          \/ /\ parsed'.category = "personal"
             /\ \A k \in DOMAIN CategoryOrder : ~Matches(CategoryOrder[k], inputText')
       /\ (parsed # NotParsed /\ inputText' = inputText) => parsed'.category = parsed.category]_vars

\* 'call' is a keyword of work and of personal, and 'shop' occurs in
\* 'workshop': the earlier category, shopping, is returned
C20_Witness ==
  /\ inputText = <<Word("call"), Word("workshop")>>
  /\ parsed.category = "shopping"

HasToken(text, tok) == \E i \in DOMAIN text : text[i] = tok

\* C21: for "Call mom this weekend #family urgent" the parser
\* returns tags ["family"], priority high, category personal and a title
\* with neither '#family' nor 'urgent'.
C21_ScenarioB ==
  (inputText \in ScenarioB /\ parsed # NotParsed) =>
    /\ parsed.tags = <<"family">>
    /\ parsed.priority = "high"
    /\ parsed.category = "personal"
    /\ ~HasToken(parsed.title, Tag("family"))
    /\ ~HasToken(parsed.title, Word("urgent"))


\* C22: the title returned by parseTaskInput holds no tag token, no repeat
\* token and no occurrence of the date phrase that was matched, also when a
\* kind of token occurs more than once in the input.
C22_TitleHasNoTokens ==
  parsed # NotParsed =>
    \A i \in DOMAIN parsed.title :
      /\ ~IsTagToken(parsed.title[i])
      /\ ~IsRepeatToken(parsed.title[i])
      /\ Len(chronoParse(inputText)) > 0 => parsed.title[i] # chronoParse(inputText)[1]

\* C23: the repeat field returned by parseTaskInput, and the one createTask
\* stores, is absent or one of daily, weekly, monthly, yearly, whatever the
\* case the token was written in.
C23_RepeatIsLiteral ==
  parsed # NotParsed =>
    /\ parsed.repeat \in RepeatLiterals \cup {Undefined}
    /\ createTask(inputText, Undefined, now).repeat \in RepeatLiterals \cup {Undefined}


\* C24: a reducer action that changes completed or status of a task that
\* satisfies completed = (status = "done") leaves that task satisfying it.
C24_ReducerKeepsStatusCompleted ==
  [][\A i \in DOMAIN tasks, j \in DOMAIN tasks' :
       ( /\ tasks[i].id = tasks'[j].id
         /\ Consistent(tasks[i])
         /\ \/ tasks'[j].completed # tasks[i].completed
            \/ tasks'[j].status # tasks[i].status )
       => Consistent(tasks'[j])]_vars


\* C25: in the list filterTasks returns, of two tasks with the same priority
\* and the same due date (or both without one) the one created later is first.
C25_TiesNewestFirst ==
  \A i, j \in DOMAIN filteredTasks :
    ( /\ i < j
      /\ filteredTasks[i].priority = filteredTasks[j].priority
      /\ filteredTasks[i].dueDate = filteredTasks[j].dueDate )
    => filteredTasks[i].createdAt >= filteredTasks[j].createdAt


\* C26: a task is counted in the overdue figure of getTaskStats exactly when
\* isTaskOverdue holds for it, and both hold exactly when its due date is
\* before the current moment and its status is not done.
C26_OneOverdueDefinition ==
  \A i \in DOMAIN tasks :
    LET t == tasks[i]
        counted == getTaskStats(<<t>>, now).overdue = 1
        late == IsDate(t.dueDate) /\ t.dueDate < now /\ t.status # "done"
    IN /\ counted <=> isTaskOverdue(t, now)
       /\ isTaskOverdue(t, now) <=> late


RECURSIVE SumSlots(_, _)
SumSlots(slots, d) == IF d < 0 THEN 0 ELSE slots[d] + SumSlots(slots, d - 1)

CompletedInWeek(ts, d, clock) ==
  {i \in DOMAIN ts :
     /\ ts[i].completed
     /\ Day(ts[i].updatedAt) % 7 = d
     /\ clock - ts[i].updatedAt < 7 * DayLen}

\* C27: weeklyCompletions has 7 slots whose sum is at most stats.completed,
\* and whenever the stats are computed slot d is the number of completed
\* tasks whose updatedAt is on weekday d and less than 7 days before now.
C27_WeeklyCompletions ==
  /\ [](/\ DOMAIN stats.weeklyCompletions = 0..6
        /\ SumSlots(stats.weeklyCompletions, 6) <= stats.completed)
  /\ [][stats' # stats =>
          \A d \in 0..6 :
            stats'.weeklyCompletions[d] = Cardinality(CompletedInWeek(tasks', d, now))]_vars

\* the stats were computed when a completed task had become 7 days old: it is
\* in no slot, while a task completed yesterday is in the slot of its weekday
C27_Witness ==
  /\ now = 1 /\ stats = getTaskStats(tasks, now) /\ stats.completed = 2
  /\ \E i \in DOMAIN tasks : tasks[i].completed /\ tasks[i].updatedAt = 1 - 7 * DayLen
  /\ \E i \in DOMAIN tasks : tasks[i].completed /\ tasks[i].updatedAt = 0 - DayLen
  /\ SumSlots(stats.weeklyCompletions, 6) = 1
  /\ stats.weeklyCompletions[getDay(0 - DayLen)] = 1


\* C30: a task whose due date is its creation time (no date phrase in the
\* text) is in the 'today' view and, while not completed, is not counted as
\* overdue by getTaskStats at any moment of the day it was created.
C30_NewTaskNotOverdueToday ==
  \A i \in DOMAIN tasks :
    LET t == tasks[i]
    IN ( /\ t.dueDate = t.createdAt
         /\ ~t.completed
         /\ Day(t.createdAt) = Day(now) )
       => /\ filterTasks(<<t>>, "today", "", now) = <<t>>
          /\ getTaskStats(<<t>>, now).overdue = 0


Toggles == {"toggleTask", "toggleImportant"}

\* the value a toggle command writes when it works from task t
ToggledFrom(cmd, completed, priority) ==
  IF cmd = "toggleTask" THEN ~completed ELSE OtherImportance(priority)
WrittenBy(w) ==
  IF w.cmd = "toggleTask" THEN w.data.completed ELSE w.data.priority

\* C28: toggleTask and toggleImportant write the flip of the value state.tasks
\* holds at the call, so a second toggle made from the same in-memory value
\* writes what the first one wrote; when a toggle's write is acknowledged the
\* stored value is the one it wrote, whatever was stored before.
C28_TogglesWriteFromSnapshot ==
  [][/\ ( /\ Len(pending') = Len(pending) + 1
          /\ pending'[Len(pending')].cmd \in Toggles )
        => LET w == pending'[Len(pending')]
           IN \A i \in DOMAIN tasks :
                tasks[i].id = w.id =>
                  /\ WrittenBy(w) = ToggledFrom(w.cmd, tasks[i].completed, tasks[i].priority)
                  /\ \A k \in DOMAIN pending :
                       ( /\ pending[k].cmd = w.cmd /\ pending[k].id = w.id
                         /\ pending[k].cmd = "toggleTask" => pending[k].snapCompleted = tasks[i].completed
                         /\ pending[k].cmd = "toggleImportant" => pending[k].arg.priority = tasks[i].priority )
                       => WrittenBy(pending[k]) = WrittenBy(w)
     /\ (lastOp'.op = "ack" /\ lastOp'.cmd \in Toggles)
        => \A e \in db' :
             e.id = lastOp'.id =>
               IF lastOp'.cmd = "toggleTask"
               THEN e.completed = ~lastOp'.snapCompleted
               ELSE e.priority = OtherImportance(lastOp'.arg.priority)]_vars

\* two toggles of one task made from the same in-memory value: the first is
\* acknowledged, the second is in flight with the same value to write
C28_Witness ==
  /\ IsOutcome("ack", {"toggleTask"})
  /\ \E k \in DOMAIN pending, d \in DocOf(lastOp.id) :
       /\ pending[k].cmd = "toggleTask" /\ pending[k].id = lastOp.id
       /\ pending[k].snapCompleted = lastOp.snapCompleted
       /\ pending[k].data.completed = d.completed
       /\ d.completed = ~lastOp.snapCompleted


\* C29: every updateUserSettings call made for a user who has a settings
\* document carries settings that were loaded from that user's document or
\* changed by that user, never the defaults and never another user's.
C29_SettingsLoadedBeforeSaved ==
  [][\A c \in settingsCalls' \ settingsCalls :
       (c.kind = "set" /\ userSettings[c.uid] # Null) => c.from = c.uid]_vars

====
